---- MODULE Spec2Model ----
(***************************************************************************)
(* The parallel tile-rendering core of react-fractal: the Tile Evaluator   *)
(* (fractalWorker.ts) and the Render Coordinator (drawFractal in App.tsx). *)
(*                                                                         *)
(* JavaScript numbers (float64) are modelled as fixed-point integers with  *)
(* SCALE units per 1.0; products and quotients are rescaled after every   *)
(* operation, in the order the source performs them.                       *)
(***************************************************************************)
EXTENDS Integers, Sequences, FiniteSets, TLC

VARIABLES
  state,      \* React state: [zoom, offsetX, offsetY] (useState, latest value)
  closure,    \* the view captured by the committed drawFractal (useCallback)
  canvas,     \* the <canvas>: [width, height, frame], frame = what putImageData drew
  workers,    \* workers.current: the sequence of Worker handles
  posted,     \* the results posted by workers and not yet handled, by handle
  renders,    \* one closure per drawFractal call: its request, imageData, workersCompleted
  raf,        \* callbacks queued by requestAnimationFrame
  presented,  \* history: the sequence of putImageData calls
  probe       \* the evaluator or the band partition applied to a single input

vars == <<state, closure, canvas, workers, posted, renders, raf, presented, probe>>

----------------------------------------------------------------------------
(* Bounds of the model *)

MaxRenders == 4      \* drawFractal calls explored (the two of the mount included)
MaxViewRenders == 5  \* drawFractal calls explored when every frame is awaited
Coarse == 300        \* device pixels per pixel of the model's canvas, each way
MaxHeight == 9       \* heights of the band-partition inputs
MaxWorkers == 5      \* worker counts of the band-partition inputs
MaxCount == 130      \* iteration counts of the colour inputs

----------------------------------------------------------------------------
(* float64 arithmetic, fixed-point *)

SCALE == 400

Num(n) == n * SCALE

Mul(a, b) == (a * b) \div SCALE

Div(a, b) == (a * SCALE) \div b

Min(a, b) == IF a < b THEN a ELSE b

----------------------------------------------------------------------------
(* Tile Evaluator: fractalWorker.ts *)

bailout == Num(4)

IterationCap == 1000

\* one pass of the while loop of mandelbrot over [z_re, z_im, i, broken]:
\* the bailout test, then the update of z and i
loopBody(s, c_re, c_im) ==
  LET z_re2 == Mul(s.z_re, s.z_re)
      z_im2 == Mul(s.z_im, s.z_im)
  IN IF z_re2 + z_im2 > bailout
     THEN [s EXCEPT !.broken = TRUE]
     ELSE [z_re |-> z_re2 - z_im2 + c_re,
           z_im |-> Mul(Mul(Num(2), s.z_re), s.z_im) + c_im,
           i |-> s.i + 1,
           broken |-> FALSE]

\* up to n passes of the while loop from s; the loop stops at the break.
\* The passes are split in halves to keep the evaluation shallow, and the
\* state after the first half and the number of passes left are bound as
\* values so that they are computed once.
RECURSIVE loopPasses(_, _, _, _)
loopPasses(s, n, c_re, c_im) ==
  IF s.broken \/ n <= 0 THEN s
  ELSE IF n = 1 THEN loopBody(s, c_re, c_im)
  ELSE CHOOSE t \in {loopPasses(half, rest, c_re, c_im) :
                       half \in {loopPasses(s, first, c_re, c_im) :
                                    first \in {n \div 2}},
                       rest \in {n - n \div 2}} : TRUE

\* while (i < maxIterations) { ... }: returns i
mandelbrotLoop(c_re, c_im, maxIterations) ==
  loopPasses([z_re |-> 0, z_im |-> 0, i |-> 0, broken |-> FALSE],
             maxIterations, c_re, c_im).i

inCardioid(c_re, c_im) ==
  LET q == Mul(c_re - SCALE \div 4, c_re - SCALE \div 4) + Mul(c_im, c_im)
  IN Mul(q, q + (c_re - SCALE \div 4)) <= Mul(Mul(SCALE \div 4, c_im), c_im)

inBulb(c_re, c_im) ==
  Mul(c_re + Num(1), c_re + Num(1)) + Mul(c_im, c_im) <= SCALE \div 16

\* mandelbrot without the cap of 1000 on the loop
mandelbrotRunUncapped(c_re, c_im, maxIter) ==
  IF inCardioid(c_re, c_im) THEN [ret |-> maxIter, steps |-> 0]
  ELSE IF inBulb(c_re, c_im) THEN [ret |-> maxIter, steps |-> 0]
  ELSE LET i == mandelbrotLoop(c_re, c_im, maxIter)
       IN [ret |-> i, steps |-> i]

\* mandelbrot without the period-2 bulb test
mandelbrotRunNoBulb(c_re, c_im, maxIter) ==
  IF inCardioid(c_re, c_im) THEN [ret |-> maxIter, steps |-> 0]
  ELSE LET i == mandelbrotLoop(c_re, c_im, Min(maxIter, IterationCap))
       IN [ret |-> i, steps |-> i]

\* [ret |-> the returned count, steps |-> loop iterations executed]
mandelbrotRun(c_re, c_im, maxIter) ==
  IF inCardioid(c_re, c_im) THEN [ret |-> maxIter, steps |-> 0]
  ELSE IF inBulb(c_re, c_im) THEN [ret |-> maxIter, steps |-> 0]
  ELSE CHOOSE run \in {[ret |-> i, steps |-> i] :
                         i \in {mandelbrotLoop(c_re, c_im, Min(maxIter, IterationCap))}} : TRUE

mandelbrot(c_re, c_im, maxIter) == mandelbrotRun(c_re, c_im, maxIter).ret

\* a store into a Uint8Array: the value modulo 256
wrap8(v) == v % 256

\* a store into a Uint8ClampedArray
clamp8(v) == IF v > 255 THEN 255 ELSE IF v < 0 THEN 0 ELSE v

\* the four bytes stored for an iteration count
colour(iter, maxIter) ==
  IF iter < maxIter
  THEN <<clamp8(iter * 2), clamp8(iter * 5), clamp8(iter * 3), clamp8(255)>>
  ELSE <<clamp8(0), clamp8(0), clamp8(0), clamp8(255)>>

\* the body of the inner loop for pixel (x, y) of a request (iter is bound as
\* a value so that mandelbrot is computed once)
pixel(x, y, msg) ==
  LET c_re == Div(Num(x), msg.zoom) + msg.offsetX
      c_im == Div(Num(y), msg.zoom) + msg.offsetY
  IN CHOOSE rgba \in {colour(iter, msg.maxIter) :
                        iter \in {mandelbrot(c_re, c_im, msg.maxIter)}} : TRUE

\* imageData[idx..idx+3] = rgba  (idx is 0-based, sequences are 1-based)
store4(imageData, idx, rgba) ==
  SubSeq(imageData, 1, idx) \o rgba \o SubSeq(imageData, idx + 5, Len(imageData))

\* the two for loops from pixel (x, y) on (the array after each store is
\* bound as a value so that it is computed once)
RECURSIVE evalLoop(_, _, _, _)
evalLoop(imageData, x, y, msg) ==
  IF y >= msg.endY THEN imageData
  ELSE IF x >= msg.width THEN evalLoop(imageData, 0, y + 1, msg)
  ELSE CHOOSE t \in {evalLoop(stored, x + 1, y, msg) :
                       stored \in {store4(imageData,
                                           ((y - msg.startY) * msg.width + x) * 4,
                                           pixel(x, y, msg))}} : TRUE

\* self.onmessage: the chunkData posted for a request
evaluate(msg) ==
  LET chunkHeight == msg.endY - msg.startY
  IN evalLoop([k \in 1..(msg.width * chunkHeight * 4) |-> 0], 0, msg.startY, msg)

----------------------------------------------------------------------------
(* Render Coordinator: drawFractal of App.tsx *)

maxIter == 100

numWorkers == 4

\* useState initial values: 200.0 device pixels per unit, at (-2.0, -1.0).
\* The canvas of the model has one pixel per Coarse x Coarse device pixels;
\* all lengths in pixels (zoom, pointer positions, window sizes) are in its pixels.
InitialView == [zoom |-> Num(200) \div Coarse, offsetX |-> Num(-2), offsetY |-> Num(-1)]

\* a <canvas> without width and height attributes
DefaultCanvas == [width |-> 300 \div Coarse + 1, height |-> 150 \div Coarse + 1]

\* window.innerWidth, window.innerHeight: a height that leaves a remainder
\* to the last band, and a height below numWorkers
WindowSizes == {<<2, 5>>, <<1, 3>>}

\* the size of the window when the component mounts
InitialWindow == <<2, 5>>

\* Math.ceil in place of Math.floor
chunkSizeCeil(height, n) == (height + n - 1) \div n

chunkSize(height, n) == height \div n

\* the band of worker i (0-based) of n
startY(i, height, n) == i * chunkSize(height, n)

\* endY without the last band's remainder
endYNoRemainder(i, height, n) == (i + 1) * chunkSize(height, n)

\* endY taken as the last row of the band, one past (i + 1) * chunkSize
endYInclusive(i, height, n) ==
  IF i = n - 1 THEN height ELSE Min(height, (i + 1) * chunkSize(height, n) + 1)

endY(i, height, n) ==
  IF i = n - 1 THEN height ELSE (i + 1) * chunkSize(height, n)

\* the id of the latest drawFractal call
lastRender == IF workers = <<>> THEN 0 ELSE workers[Len(workers)].render

\* a clean-up that stops only the workers still computing: a worker that has
\* posted its result stays, with the result queued
terminateKeepsQueue(worker) ==
  IF worker.status = "posted" THEN worker
  ELSE [render |-> worker.render, band |-> worker.band, status |-> "terminated",
        msg |-> <<>>, result |-> <<>>]

\* worker.terminate(): the worker stops and the messages it posted that are
\* still queued are discarded
terminate(worker) ==
  [render |-> worker.render, band |-> worker.band, status |-> "terminated",
   msg |-> <<>>, result |-> <<>>]

\* a clean-up loop that stops one handle short
terminateAllButLast(ws) ==
  [k \in DOMAIN ws |->
     IF k = Len(ws)
     THEN ws[k]
     ELSE [render |-> ws[k].render, band |-> ws[k].band, status |-> "terminated",
           msg |-> <<>>, result |-> <<>>]]

\* workers.current.forEach((worker) => worker.terminate())
terminateAll(ws) == [k \in DOMAIN ws |-> terminate(ws[k])]

\* the results still queued: those of workers that were not terminated
unclaimed(ps, ws) ==
  [k \in {j \in DOMAIN ps : ws[j].status = "posted"} |-> ps[k]]

\* the message posted to worker i of a render
request(i, cv, view) ==
  [width |-> cv.width,
   startY |-> startY(i, cv.height, numWorkers),
   endY |-> endY(i, cv.height, numWorkers),
   zoom |-> view.zoom, offsetX |-> view.offsetX, offsetY |-> view.offsetY,
   maxIter |-> maxIter]

\* the for loop: new Worker, postMessage, workers.current.push. A worker
\* starts on its request at once; result is the chunkData it computes, a
\* function of the request, which it has posted once its status is "posted"
spawn(ws, r, cv, view) ==
  ws \o [k \in 1..numWorkers |->
           [render |-> r, band |-> k - 1, status |-> "running",
            msg |-> request(k - 1, cv, view),
            result |-> evaluate(request(k - 1, cv, view))]]

\* the variables handleWorkerMessage closes over; from, last and afterFailure
\* are history: the results copied into imageData so far (with the offset and
\* the length of each copy), the band of the latest one, and whether a worker
\* of the render it superseded had failed
newRender(cv, view) ==
  [width |-> cv.width, height |-> cv.height, view |-> view,
   imageData |-> [k \in 1..(cv.width * cv.height * 4) |-> 0],
   workersCompleted |-> 0,
   from |-> {},
   last |-> -1,
   afterFailure |-> FALSE]

\* the closures some worker can still call (a closure is reachable only
\* through the onmessage of the workers of its render)
reachable(rs, ws) ==
  [r \in {q \in DOMAIN rs : \E k \in DOMAIN ws :
                               ws[k].render = q /\ ws[k].status # "terminated"}
     |-> rs[r]]

\* drawFractal with imageData and workersCompleted kept across calls instead
\* of allocated per call
drawnReusing(ws, ps, rs, cv, view) ==
  LET p == IF ws = <<>> THEN 0 ELSE ws[Len(ws)].render
      r == p + 1
      ws2 == spawn(terminateAll(ws), r, cv, view)
      fresh == newRender(cv, view)
      kept == IF p \in DOMAIN rs /\ Len(rs[p].imageData) = Len(fresh.imageData)
              THEN [fresh EXCEPT !.imageData = rs[p].imageData,
                                 !.workersCompleted = rs[p].workersCompleted,
                                 !.from = rs[p].from]
              ELSE fresh
  IN [workers |-> ws2,
      posted |-> unclaimed(ps, ws2),
      renders |-> reachable([q \in DOMAIN rs \cup {r} |->
                               IF q = r THEN kept ELSE rs[q]],
                            ws2)]

\* drawFractal() on canvas cv with the view its closure captured, from the
\* handles ws, the queued results ps and the closures rs:
\* [workers, posted, renders] afterwards
drawn(ws, ps, rs, cv, view) ==
  LET r == (IF ws = <<>> THEN 0 ELSE ws[Len(ws)].render) + 1
      ws2 == spawn(terminateAll(ws), r, cv, view)
  IN [workers |-> ws2,
      posted |-> unclaimed(ps, ws2),
      renders |-> reachable([q \in DOMAIN rs \cup {r} |->
                               IF q = r
                               THEN [newRender(cv, view) EXCEPT !.afterFailure =
                                       \E k \in DOMAIN ws : ws[k].status = "failed"]
                               ELSE rs[q]],
                            ws2)]

drawFractal(cv, view) ==
  \E d \in {drawn(workers, posted, renders, cv, view)} :
       /\ workers' = d.workers
       /\ posted' = d.posted
       /\ renders' = d.renders

\* imageData.set(chunkArray, offset)
set(imageData, chunkArray, offset) ==
  SubSeq(imageData, 1, offset) \o chunkArray
    \o SubSeq(imageData, offset + Len(chunkArray) + 1, Len(imageData))

\* a handler that copies at startY * width, without the 4 bytes per pixel
receivedAtPixelOffset(rd, w) ==
  LET offset == posted[w].startY * rd.width
  IN IF offset + Len(posted[w].chunkData) > Len(rd.imageData)
     THEN rd
     ELSE [rd EXCEPT !.imageData = set(@, posted[w].chunkData, offset),
                     !.workersCompleted = @ + 1,
                     !.from = @ \cup {[worker |-> w, msg |-> workers[w].msg,
                                        at |-> offset,
                                        len |-> Len(posted[w].chunkData)]},
                     !.last = workers[w].band]

\* a handler that places the chunks one after the other as they arrive
receivedInArrivalOrder(rd, w) ==
  LET offset == rd.workersCompleted * chunkSize(rd.height, numWorkers) * rd.width * 4
  IN IF offset + Len(posted[w].chunkData) > Len(rd.imageData)
     THEN rd
     ELSE [rd EXCEPT !.imageData = set(@, posted[w].chunkData, offset),
                     !.workersCompleted = @ + 1,
                     !.from = @ \cup {[worker |-> w, msg |-> workers[w].msg,
                                        at |-> offset,
                                        len |-> Len(posted[w].chunkData)]},
                     !.last = workers[w].band]

\* the closure rd after handleWorkerMessage took the result posted by
\* workers[w]; set throws a RangeError, and the handler stops, when the chunk
\* does not fit
received(rd, w) ==
  LET offset == posted[w].startY * rd.width * 4
  IN IF offset + Len(posted[w].chunkData) > Len(rd.imageData)
     THEN rd
     ELSE [rd EXCEPT !.imageData = set(@, posted[w].chunkData, offset),
                     !.workersCompleted = @ + 1,
                     !.from = @ \cup {[worker |-> w, msg |-> workers[w].msg,
                                        at |-> offset,
                                        len |-> Len(posted[w].chunkData)]},
                     !.last = workers[w].band]

\* a completion test that is one late
frameCompleteLate(rd) == rd.workersCompleted > numWorkers

\* a completion test that is one short
frameCompleteEarly(rd) == rd.workersCompleted = numWorkers - 1

\* if (workersCompleted === numWorkers)
frameComplete(rd) == rd.workersCompleted = numWorkers

\* handleWorkerMessage for the result posted by workers[w]
handleWorkerMessage(w) ==
  /\ w \in DOMAIN posted
  /\ workers' = [workers EXCEPT ![w].status = "idle"]
  /\ posted' = [k \in DOMAIN posted \ {w} |-> posted[k]]
  /\ \E rd \in {received(renders[workers[w].render], w)} :
       /\ renders' = [renders EXCEPT ![workers[w].render] = rd]
       /\ IF rd # renders[workers[w].render] /\ frameComplete(rd)
          THEN /\ canvas' = [canvas EXCEPT !.frame = workers[w].render]
               /\ presented' = Append(presented,
                    [render |-> workers[w].render, issued |-> lastRender,
                     width |-> rd.width, height |-> rd.height, view |-> rd.view,
                     data |-> rd.imageData,
                     workersCompleted |-> rd.workersCompleted,
                     from |-> rd.from])
          ELSE UNCHANGED <<canvas, presented>>
  /\ UNCHANGED <<state, closure, raf, probe>>

\* self.onmessage in the worker workers[w] returns: the band is evaluated
\* and { startY, chunkData } is posted
workerMessage(w) ==
  /\ w \in DOMAIN workers
  /\ workers[w].status = "running"
  /\ workers' = [workers EXCEPT ![w].status = "posted"]
  /\ posted' = [k \in DOMAIN posted \cup {w} |->
                  IF k = w
                  THEN [startY |-> workers[w].msg.startY,
                        chunkData |-> workers[w].result]
                  ELSE posted[k]]
  /\ UNCHANGED <<state, closure, canvas, renders, raf, presented, probe>>

\* a failure that an error handler counts as a completed band
workerFailsCounted(w) ==
  /\ w \in DOMAIN workers
  /\ workers[w].status = "running"
  /\ workers' = [workers EXCEPT ![w].status = "failed"]
  /\ renders' = [renders EXCEPT ![workers[w].render].workersCompleted = @ + 1]
  /\ UNCHANGED <<state, closure, canvas, posted, raf, presented, probe>>

\* the worker workers[w] throws or never returns: no result is posted
workerFails(w) ==
  /\ w \in DOMAIN workers
  /\ workers[w].status = "running"
  /\ workers' = [workers EXCEPT ![w].status = "failed"]
  /\ UNCHANGED <<state, closure, canvas, posted, renders, raf, presented, probe>>

----------------------------------------------------------------------------
(* The callers of drawFractal *)

\* the drawFractal calls already due: two per queued animation frame (its
\* own and the one of the re-render that follows) and one for a state change
\* not yet committed
due == 2 * Len(raf) + (IF state # closure THEN 1 ELSE 0)

\* an event that changes the view is explored when its own drawFractal call
\* and the one of the re-render that follows fit within max calls
room(max) == lastRender + due + 2 <= max

PanDeltas == {<<-1, 0>>}

ZoomFactors == {Num(2)}

MousePositions == {<<1, 2>>}

\* onMouseMove while dragging, the pointer moved by (dx, dy)
onMouseMove(dx, dy) ==
  /\ state' = [state EXCEPT !.offsetX = @ - Div(Num(dx), closure.zoom),
                            !.offsetY = @ - Div(Num(dy), closure.zoom)]
  /\ drawFractal(canvas, closure)
  /\ UNCHANGED <<closure, canvas, raf, presented, probe>>

\* handleWheel: zoomFactor = Math.pow(0.999, e.deltaY) at (mouseX, mouseY)
handleWheel(zoomFactor, mouseX, mouseY) ==
  /\ LET newZoom == Mul(closure.zoom, zoomFactor)
     IN raf' = Append(raf,
          [dx |-> Div(Num(mouseX), closure.zoom) - Div(Num(mouseX), newZoom),
           dy |-> Div(Num(mouseY), closure.zoom) - Div(Num(mouseY), newZoom),
           newZoom |-> newZoom,
           view |-> closure])
  /\ UNCHANGED <<state, closure, canvas, workers, posted, renders, presented, probe>>

\* the requestAnimationFrame callback of handleWheel
animationFrame ==
  /\ raf # <<>>
  /\ state' = [zoom |-> Head(raf).newZoom,
               offsetX |-> state.offsetX + Head(raf).dx,
               offsetY |-> state.offsetY + Head(raf).dy]
  /\ drawFractal(canvas, Head(raf).view)
  /\ raf' = Tail(raf)
  /\ UNCHANGED <<closure, canvas, presented, probe>>

\* React re-renders App: drawFractal is rebuilt when zoom, offsetX or offsetY
\* changed, and useEffect(..., [drawFractal]) calls it
commit ==
  /\ state # closure
  /\ closure' = state
  /\ drawFractal(canvas, state)
  /\ UNCHANGED <<state, canvas, raf, presented, probe>>

\* handleResize: it was created by the mount's effect and calls the first drawFractal
handleResize(w, h) ==
  /\ canvas' = [width |-> w, height |-> h, frame |-> 0]
  /\ drawFractal(canvas', InitialView)
  /\ UNCHANGED <<state, closure, raf, presented, probe>>

----------------------------------------------------------------------------
(* The mounted component *)

NoProbe == [kind |-> "none"]

\* the effects of the mount, in order: drawFractal() on the default canvas,
\* then handleResize() sets the canvas size and calls drawFractal() again
mounted(w, h) ==
  LET first == drawn(<<>>, <<>>, <<>>, DefaultCanvas, InitialView)
  IN drawn(first.workers, first.posted, first.renders,
           [width |-> w, height |-> h], InitialView)

Mounted ==
  /\ state = InitialView
  /\ closure = InitialView
  /\ raf = <<>>
  /\ presented = <<>>
  /\ canvas = [width |-> InitialWindow[1], height |-> InitialWindow[2], frame |-> 0]
  /\ workers = mounted(InitialWindow[1], InitialWindow[2]).workers
  /\ posted = mounted(InitialWindow[1], InitialWindow[2]).posted
  /\ renders = mounted(InitialWindow[1], InitialWindow[2]).renders

Init == Mounted /\ probe = NoProbe

Next ==
  \/ room(MaxRenders) /\ \E d \in PanDeltas : onMouseMove(d[1], d[2])
  \/ room(MaxRenders) /\ \E f \in ZoomFactors, m \in MousePositions :
                            handleWheel(f, m[1], m[2])
  \/ lastRender < MaxRenders /\ animationFrame
  \/ lastRender < MaxRenders /\ commit
  \/ lastRender < MaxRenders /\ \E size \in WindowSizes : handleResize(size[1], size[2])
  \/ \E w \in DOMAIN workers : workerMessage(w)
  \/ \E w \in DOMAIN workers : workerFails(w)
  \/ \E w \in DOMAIN posted : handleWorkerMessage(w)

Spec == Init /\ [][Next]_vars

\* a worker posts its result, or the control thread handles a posted one
progress ==
  \/ \E w \in DOMAIN workers : workerMessage(w)
  \/ \E w \in DOMAIN posted : handleWorkerMessage(w)

\* workers run in parallel threads and the control thread's event loop
\* dispatches every queued message: while results are being computed or are
\* queued, one of them is posted or handled
FairSpec == Spec /\ WF_vars(progress)

\* the frame of the latest drawFractal call is on the canvas
settled ==
  \A k \in DOMAIN workers : workers[k].render = lastRender => workers[k].status = "idle"

\* the component used by someone who waits for the frame before the next
\* drag, wheel turn or window resize, with workers that do not fail: the
\* steps are steps of Next with MaxViewRenders calls
ViewNext ==
  \/ settled /\ room(MaxViewRenders) /\ \E d \in PanDeltas : onMouseMove(d[1], d[2])
  \/ settled /\ room(MaxViewRenders) /\ \E f \in ZoomFactors, m \in MousePositions :
                                            handleWheel(f, m[1], m[2])
  \/ lastRender < MaxViewRenders /\ animationFrame
  \/ lastRender < MaxViewRenders /\ commit
  \/ settled /\ lastRender < MaxViewRenders
       /\ \E size \in WindowSizes : handleResize(size[1], size[2])
  \/ \E w \in DOMAIN workers : workerMessage(w)
  \/ \E w \in DOMAIN posted : handleWorkerMessage(w)

ViewSpec == Init /\ [][ViewNext]_vars

----------------------------------------------------------------------------
(* The evaluator and the band partition applied to single inputs *)

\* points c on a grid of quarters, and iteration limits on both sides of the cap
ProbePoints == {<<re * (SCALE \div 4), im * (SCALE \div 4)>> : re \in -9..4, im \in -5..5}

ProbeMaxIter == {0, 1, 2, 5, 100, 1000, 1001, 1500}

ProbeInputs ==
  {[kind |-> "mandelbrot", done |-> FALSE, c_re |-> c[1], c_im |-> c[2], maxIter |-> m]
     : c \in ProbePoints, m \in ProbeMaxIter}
  \cup
  {[kind |-> "bands", done |-> FALSE, height |-> h, numWorkers |-> n]
     : h \in 0..MaxHeight, n \in 1..MaxWorkers}
  \cup
  {[kind |-> "colour", done |-> FALSE, iter |-> i, maxIter |-> m]
     : i \in 0..MaxCount, m \in ProbeMaxIter}

\* iter = mandelbrot(c_re, c_im, maxIter) and the four bytes stored for it
applyMandelbrot ==
  /\ probe.kind = "mandelbrot" /\ ~probe.done
  /\ LET run == mandelbrotRun(probe.c_re, probe.c_im, probe.maxIter)
     IN probe' = [kind |-> "mandelbrot", done |-> TRUE,
                  c_re |-> probe.c_re, c_im |-> probe.c_im, maxIter |-> probe.maxIter,
                  ret |-> mandelbrot(probe.c_re, probe.c_im, probe.maxIter),
                  steps |-> run.steps,
                  rgba |-> colour(run.ret, probe.maxIter)]
  /\ UNCHANGED <<state, closure, canvas, workers, posted, renders, raf, presented>>

\* the bands <<startY, endY>> of the for loop of drawFractal
applyBands ==
  /\ probe.kind = "bands" /\ ~probe.done
  /\ probe' = [kind |-> "bands", done |-> TRUE,
               height |-> probe.height, numWorkers |-> probe.numWorkers,
               bands |-> [k \in 1..probe.numWorkers |->
                            <<startY(k - 1, probe.height, probe.numWorkers),
                              endY(k - 1, probe.height, probe.numWorkers)>>]]
  /\ UNCHANGED <<state, closure, canvas, workers, posted, renders, raf, presented>>

\* the four bytes the inner loop stores for iter
applyColour ==
  /\ probe.kind = "colour" /\ ~probe.done
  /\ probe' = [kind |-> "colour", done |-> TRUE,
               iter |-> probe.iter, maxIter |-> probe.maxIter,
               rgba |-> colour(probe.iter, probe.maxIter)]
  /\ UNCHANGED <<state, closure, canvas, workers, posted, renders, raf, presented>>

PureInit == Mounted /\ probe \in ProbeInputs

PureNext == applyMandelbrot \/ applyBands \/ applyColour

PureSpec == PureInit /\ [][PureNext]_vars

----------------------------------------------------------------------------
(* Properties *)

Entries == {presented[k] : k \in DOMAIN presented}

\* the newest putImageData call; every call is the newest one in the state
\* that follows it
Newest == presented[Len(presented)]

\* C1: once a later render has been issued, no frame of an earlier render is
\* presented: every frame was presented while its render was the latest one
\* issued, so the presented renders never go back to an earlier one.
C1_NoStaleFrame ==
  /\ \A e \in Entries : e.render = e.issued
  /\ \A i, j \in DOMAIN presented :
       i < j => presented[i].render <= presented[j].render

\* render 2 was superseded before it had all its results, and the render
\* that superseded it presented its frame
C1_Witness ==
  /\ \A e \in Entries : e.render # 2
  /\ \E e \in Entries : e.render = 3 /\ e.issued = 3

\* C2: every presented frame is built from the results of the workers of one
\* render only, all computed for the same (width, zoom, offsetX, offsetY, maxIter).
C2_OneRenderPerFrame ==
  \A e \in Entries :
    /\ \A f \in e.from : workers[f.worker].render = e.render
    /\ \A f \in e.from :
         /\ f.msg.width = e.width
         /\ f.msg.zoom = e.view.zoom
         /\ f.msg.offsetX = e.view.offsetX
         /\ f.msg.offsetY = e.view.offsetY
    /\ \A f, g \in e.from : f.msg.maxIter = g.msg.maxIter

\* render 2 was superseded before it completed and render 3 presented a
\* frame of the same size
C2_Witness ==
  /\ Len(presented) = 1
  /\ presented[1].render = 3
  /\ presented[1].width = InitialWindow[1]
  /\ presented[1].height = InitialWindow[2]
  /\ Cardinality(presented[1].from) = numWorkers

\* C3: a frame is presented only when all numWorkers bands of its render have
\* been copied: its counter is numWorkers and each band reported once; the
\* counter of a presented render stays numWorkers.
C3_OnlyCompleteFrames ==
  /\ \A e \in Entries :
       /\ e.workersCompleted = numWorkers
       /\ \A b \in 0..(numWorkers - 1) :
            Cardinality({f \in e.from : workers[f.worker].render = e.render
                                        /\ workers[f.worker].band = b}) = 1
  /\ \A e \in Entries :
       e.render \in DOMAIN renders => renders[e.render].workersCompleted = numWorkers

\* a frame was presented, and a render was superseded without one
C3_Witness ==
  /\ presented # <<>>
  /\ \E r \in 2..lastRender : \A e \in Entries : e.render # r

\* C4: every worker that is not terminated belongs to the latest render, and
\* there are at most numWorkers of them.
C4_OnlyLatestWorkersLive ==
  LET live == {k \in DOMAIN workers : workers[k].status # "terminated"}
  IN /\ \A k \in live : workers[k].render = lastRender
     /\ Cardinality(live) <= numWorkers

\* a third render was issued: the workers of the second are terminated and a
\* worker of the third has its result queued
C4_Witness ==
  /\ lastRender = 3
  /\ \E k \in DOMAIN workers : workers[k].render = 2 /\ workers[k].status = "terminated"
  /\ \E k \in DOMAIN posted : workers[k].render = 3

\* no worker of render r has failed
healthy(r) ==
  \A k \in DOMAIN workers : workers[k].render = r => workers[k].status # "failed"

\* the number of times render r's frame was presented
timesPresented(r) == Cardinality({k \in DOMAIN presented : presented[k].render = r})

\* C5: a render that is not superseded and none of whose workers fails
\* eventually has its frame presented, and no frame is presented twice: again
\* and again the latest render has been presented once or has a failed
\* worker, so a render that stays the latest and healthy is presented.
C5_PresentedOnce ==
  /\ []<>(timesPresented(lastRender) = 1 \/ ~healthy(lastRender))
  /\ [](\A r \in 1..lastRender : timesPresented(r) <= 1)

\* the latest render, after an earlier one was superseded, presented its frame
\* once with all its workers idle
C5_Witness ==
  /\ lastRender > 2
  /\ timesPresented(lastRender) = 1
  /\ \A k \in DOMAIN workers : workers[k].render = lastRender => workers[k].status = "idle"

\* C6: the bands are in ascending order, pairwise disjoint, inside [0, height)
\* and cover it, and all but the last have floor(height / numWorkers) rows.
C6_BandsPartition ==
  (probe.kind = "bands" /\ probe.done) =>
    LET b == probe.bands
        n == probe.numWorkers
        h == probe.height
    IN /\ Len(b) = n
       /\ \A i \in 1..n : 0 <= b[i][1] /\ b[i][1] <= b[i][2] /\ b[i][2] <= h
       /\ \A i, j \in 1..n : i < j => b[i][2] <= b[j][1]
       /\ \A y \in 0..(h - 1) : \E i \in 1..n : b[i][1] <= y /\ y < b[i][2]
       /\ \E q \in 0..h :
            /\ q * n <= h /\ h < (q + 1) * n
            /\ \A i \in 1..(n - 1) : b[i][2] - b[i][1] = q

\* a partition with several bands and a remainder for the last one
C6_Witness ==
  /\ probe.kind = "bands" /\ probe.done
  /\ probe.numWorkers = numWorkers
  /\ probe.height > probe.numWorkers
  /\ probe.height % probe.numWorkers # 0

\* the request of a presented frame, as the evaluator receives it
requestOf(e) ==
  [zoom |-> e.view.zoom, offsetX |-> e.view.offsetX, offsetY |-> e.view.offsetY,
   maxIter |-> maxIter]

\* the four bytes of pixel (x, y) of a presented frame
bytesAt(e, x, y) ==
  LET idx == (y * e.width + x) * 4
  IN <<e.data[idx + 1], e.data[idx + 2], e.data[idx + 3], e.data[idx + 4]>>

\* C7: in a presented frame the four bytes at (y * width + x) * 4 are the
\* colour the evaluator computes for (x, y) alone. (Stated of each frame
\* while its render is the latest, which by C1 it is when it is presented.)
C7_PixelsInPlace ==
  (presented # <<>> /\ Newest.render = lastRender) =>
    /\ Len(Newest.data) = Newest.width * Newest.height * 4
    /\ \A x \in 0..(Newest.width - 1), y \in 0..(Newest.height - 1) :
         bytesAt(Newest, x, y) = pixel(x, y, requestOf(Newest))

\* a frame of at least numWorkers rows with a pixel outside the first band
\* that differs from pixel (0, 0)
C7_Witness ==
  /\ presented # <<>>
  /\ Newest.render = lastRender
  /\ Newest.height >= numWorkers
  /\ \E x \in 0..(Newest.width - 1), y \in 1..(Newest.height - 1) :
       /\ y >= endY(0, Newest.height, numWorkers)
       /\ bytesAt(Newest, x, y) # bytesAt(Newest, 0, 0)

\* C8: two presented frames of the same (width, height, view) are
\* byte-identical, whatever the order their results arrived in.
C8_OrderIndependent ==
  \A e, f \in Entries :
    (e.width = f.width /\ e.height = f.height /\ e.view = f.view) => e.data = f.data

\* two frames of the same request, the later one completed by a result
\* other than the last band's, so its results did not arrive in band order
C8_Witness ==
  \E e, f \in Entries :
    /\ e.width = f.width /\ e.height = f.height /\ e.view = f.view
    /\ e.render < f.render /\ f.render = lastRender
    /\ renders[lastRender].last # numWorkers - 1
    /\ \E x \in 0..(e.width - 1), y \in 1..(e.height - 1) :
         bytesAt(e, x, y) # bytesAt(e, 0, 0)

\* the inequalities of the early exits, as the claims state them
claimCardioid(c_re, c_im) ==
  LET q == Mul(c_re - SCALE \div 4, c_re - SCALE \div 4) + Mul(c_im, c_im)
  IN Mul(q, q + (c_re - SCALE \div 4)) <= Mul(Mul(SCALE \div 4, c_im), c_im)

claimBulb(c_re, c_im) ==
  Mul(c_re + SCALE, c_re + SCALE) + Mul(c_im, c_im) <= SCALE \div 16

earlyExit == claimCardioid(probe.c_re, probe.c_im) \/ claimBulb(probe.c_re, probe.c_im)

\* C9 as stated: the count returned by mandelbrot is in [0, min(maxIter, 1000)],
\* early exits and maxIter > 1000 included.
C9_AsStated ==
  (probe.kind = "mandelbrot" /\ probe.done) =>
    0 <= probe.ret /\ probe.ret <= Min(probe.maxIter, 1000)

\* C9, amended: the count returned by mandelbrot is in [0, maxIter]; it is
\* exactly maxIter on an early exit and in [0, min(maxIter, 1000)] otherwise.
C9_EscapeBound ==
  (probe.kind = "mandelbrot" /\ probe.done) =>
    /\ 0 <= probe.ret /\ probe.ret <= probe.maxIter
    /\ earlyExit => probe.ret = probe.maxIter
    /\ ~earlyExit => probe.ret <= Min(probe.maxIter, 1000)

\* a point that takes no early exit and never escapes, with maxIter > 1000
C9_Witness ==
  /\ probe.kind = "mandelbrot" /\ probe.done
  /\ ~earlyExit
  /\ probe.maxIter > 1000
  /\ probe.ret = 1000

\* C10: for a point that satisfies the cardioid or the bulb inequality,
\* mandelbrot returns maxIter without a pass of the loop and the evaluator
\* stores (0, 0, 0, 255).
C10_EarlyExit ==
  (probe.kind = "mandelbrot" /\ probe.done /\ earlyExit) =>
    /\ probe.ret = probe.maxIter
    /\ probe.steps = 0
    /\ probe.rgba = <<0, 0, 0, 255>>

\* a point of the period-2 bulb outside the cardioid, with maxIter > 0
C10_Witness ==
  /\ probe.kind = "mandelbrot" /\ probe.done
  /\ claimBulb(probe.c_re, probe.c_im) /\ ~claimCardioid(probe.c_re, probe.c_im)
  /\ probe.maxIter > 0
  /\ probe.rgba = <<0, 0, 0, 255>>

\* C11: while a worker of a render has failed (it never posts), the render's
\* counter is below numWorkers and no frame of it has been presented; and
\* every drawFractal call starts with a zeroed buffer and a counter of 0.
C11_FailedNeverPresents ==
  /\ [](\A k \in DOMAIN workers :
          workers[k].status = "failed" =>
            /\ renders[workers[k].render].workersCompleted < numWorkers
            /\ timesPresented(workers[k].render) = 0)
  /\ [][lastRender' # lastRender =>
          /\ renders'[lastRender'].workersCompleted = 0
          /\ renders'[lastRender'].from = {}
          /\ \A i \in DOMAIN renders'[lastRender'].imageData :
               renders'[lastRender'].imageData[i] = 0]_vars

\* a render issued after a worker of the previous one had failed presented
\* its frame, and the render with the failed worker none
C11_Witness ==
  /\ lastRender > 2
  /\ renders[lastRender].afterFailure
  /\ timesPresented(lastRender) = 1
  /\ timesPresented(lastRender - 1) = 0

\* C12: when the canvas is lower than numWorkers rows, the first
\* numWorkers - 1 requests are empty bands (startY = endY) and the last is
\* [0, height); the result of an empty band has length 0 and is posted like
\* any other; and a presented frame of such a canvas has numWorkers results
\* copied, zero-length ones for the empty bands, and every pixel stored
\* (alpha 255).
C12_EmptyBands ==
  /\ \A k \in DOMAIN workers :
       (workers[k].status # "terminated"
        /\ renders[workers[k].render].height < numWorkers) =>
         /\ workers[k].band < numWorkers - 1 =>
              /\ workers[k].msg.startY = workers[k].msg.endY
              /\ Len(workers[k].result) = 0
              /\ k \in DOMAIN posted => posted[k].chunkData = <<>>
         /\ workers[k].band = numWorkers - 1 =>
              /\ workers[k].msg.startY = 0
              /\ workers[k].msg.endY = renders[workers[k].render].height
  /\ \A e \in Entries :
       e.height < numWorkers =>
         /\ e.workersCompleted = numWorkers
         /\ Cardinality(e.from) = numWorkers
         /\ Cardinality({f \in e.from : f.len = 0}) = numWorkers - 1
         /\ \A x \in 0..(e.width - 1), y \in 0..(e.height - 1) :
              bytesAt(e, x, y)[4] = 255

\* a frame of a canvas of 3 rows was presented, its render still the latest,
\* with the results of its three empty bands handled
C12_Witness ==
  /\ presented # <<>>
  /\ Newest.render = lastRender
  /\ Newest.height > 0 /\ Newest.height < numWorkers
  /\ \A k \in DOMAIN workers :
       workers[k].render = lastRender => workers[k].status = "idle"

\* a request's result goes to the bytes [lo, hi) of the buffer
lo(msg) == msg.startY * msg.width * 4

hi(msg) == msg.endY * msg.width * 4

\* C13: the destination ranges of the requests of a render are pairwise
\* disjoint, lie inside its buffer and cover it; each result is copied to its
\* request's range; and in a presented frame every byte was written by
\* exactly one copy.
C13_DisjointDestinations ==
  /\ \A r \in DOMAIN renders :
       LET mine == {k \in DOMAIN workers :
                      workers[k].render = r /\ workers[k].status # "terminated"}
           size == Len(renders[r].imageData)
       IN /\ size = renders[r].width * renders[r].height * 4
          /\ \A k \in mine :
               /\ 0 <= lo(workers[k].msg)
               /\ lo(workers[k].msg) <= hi(workers[k].msg)
               /\ hi(workers[k].msg) <= size
          /\ \A k, j \in mine :
               k # j => \/ hi(workers[k].msg) <= lo(workers[j].msg)
                        \/ hi(workers[j].msg) <= lo(workers[k].msg)
          /\ \A i \in 0..(size - 1) :
               \E k \in mine : lo(workers[k].msg) <= i /\ i < hi(workers[k].msg)
          /\ \A f \in renders[r].from :
               f.at = lo(f.msg) /\ f.at + f.len = hi(f.msg)
  /\ \A e \in Entries :
       \A i \in 0..(Len(e.data) - 1) :
         Cardinality({f \in e.from : f.at <= i /\ i < f.at + f.len}) = 1

\* a frame was presented whose bands have different heights, its render
\* still the latest
C13_Witness ==
  /\ presented # <<>>
  /\ Newest.render = lastRender
  /\ Newest.height > numWorkers
  /\ \E f, g \in Newest.from : f.len > g.len /\ g.len > 0

\* C14: for 0 <= i < maxIter the bytes stored are (min(255, 2i), min(255, 5i),
\* min(255, 3i), 255), saturated and not wrapped; for i >= maxIter they are
\* (0, 0, 0, 255); so the alpha of every stored pixel is 255, also of the
\* pixels stored for the counts mandelbrot returns.
C14_ClampedColours ==
  /\ (probe.kind = "colour" /\ probe.done) =>
       /\ probe.iter < probe.maxIter =>
            probe.rgba = <<Min(255, 2 * probe.iter), Min(255, 5 * probe.iter),
                           Min(255, 3 * probe.iter), 255>>
       /\ probe.iter >= probe.maxIter => probe.rgba = <<0, 0, 0, 255>>
  /\ (probe.kind \in {"colour", "mandelbrot"} /\ probe.done) =>
       /\ probe.rgba[4] = 255
       /\ \A c \in 1..3 : probe.rgba[c] \in 0..255

\* a count below maxIter for which 2i does not saturate and 3i and 5i do
C14_Witness ==
  /\ probe.kind = "colour" /\ probe.done
  /\ probe.iter < probe.maxIter
  /\ probe.rgba[1] < 255
  /\ probe.rgba[2] = 255 /\ probe.rgba[3] = 255
  /\ 2 * probe.iter < 256 /\ 3 * probe.iter > 256

\* C15: the registry workers.current holds only the numWorkers handles of the
\* most recent render, so its size never exceeds numWorkers.
C15_AsStated ==
  /\ Len(workers) <= numWorkers
  /\ \A k \in DOMAIN workers : workers[k].render = lastRender

\* C16: after any sequence of pans, zooms and resizes, when no input is
\* pending (no animation frame queued, the view state committed) and every
\* worker of the latest render has reported, the frame on the canvas was
\* computed from the current view state and the current canvas size; so a
\* resize after a pan or zoom renders the panned or zoomed view.
C16_AsStated ==
  (raf = <<>> /\ state = closure /\ settled) =>
    /\ presented # <<>>
    /\ Newest.render = lastRender
    /\ Newest.view = state
    /\ Newest.width = canvas.width /\ Newest.height = canvas.height

====
